---- MODULE Spec2Model ----
(***************************************************************************)
(* A model of src/src/notebook/widget.ts: NotebookRenderer, which mirrors  *)
(* the notebook model's cell list into a PanelLayout of cell widgets, and  *)
(* ActiveNotebook, which adds the interactivity mode, the active cell      *)
(* index, the selection and the click / double-click handlers.             *)
(*                                                                         *)
(* Indices are 0-based as in the source: the child at index i of the       *)
(* layout is layout[i + 1].  The CSS class lists that onUpdateRequest      *)
(* rewrites are presentation only; no handler reads them back, and they    *)
(* are left out of the state, as is the mimetype that onModelChanged       *)
(* copies to the code widgets.  The cell list is the environment's: each   *)
(* of its mutations is one step together with the onCellsChanged call the  *)
(* list makes synchronously.  this.update() posts an update-request that   *)
(* is processed in a later step.                                           *)
(***************************************************************************)
EXTENDS Integers, Sequences, FiniteSets, TLC

\* ---------------------------------------------------------------- bounds

\* The longest cell list the notebook model is given.
MaxCells == 2

\* The most children the layout is allowed to hold.
MaxWidgets == 2

\* The number of distinct cell models the environment can supply.
NumCellIds == 4

\* ----------------------------------------------------------------- state

VARIABLES
    cells,            \* model.cells: the notebook model's list of cell models
    layout,           \* the PanelLayout's children, in order
    mode,             \* ActiveNotebook._mode
    activeCellIndex,  \* ActiveNotebook._activeCellIndex
    readOnly,         \* model.readOnly
    focus,            \* document.activeElement: "node" (the notebook's own node)
                      \* or "other" (a cell's editor, or an element elsewhere)
    updatePending,    \* an update-request message is posted and not yet processed
    emitted,          \* the values activeIndexChanged emitted during the last operation
    op                \* the last operation and its argument

vars == <<cells, layout, mode, activeCellIndex, readOnly, focus,
          updatePending, emitted, op>>

\* ------------------------------------------------------------ cell models

CellIds == 1..NumCellIds

\* The strings a cell model's `type` takes; "heading" stands for every type
\* the switch of createCell does not name.
TypeNames == <<"markdown", "code", "heading", "raw">>

\* cell.type of a cell model.
CellType(c) == TypeNames[((c - 1) % 4) + 1]

Max(a, b) == IF a >= b THEN a ELSE b
Min(a, b) == IF a <= b THEN a ELSE b

Range(s) == {s[k] : k \in 1..Len(s)}

\* The duplicate-free sequences over S of length at most n.
DistinctSeqs(S, n) ==
    UNION {{t \in [1..k -> S] : \A a, b \in 1..k : a # b => t[a] # t[b]} :
           k \in 0..n}

\* ------------------------------------------------------- layout primitives

\* No widget: what childAt answers outside the layout.
NoWidget == [model |-> 0, kind |-> "none", selected |-> FALSE,
             picked |-> FALSE, rendered |-> FALSE]

\* layout.childAt(index)
childAt(lay, index) ==
    IF index \in 0..(Len(lay) - 1) THEN lay[index + 1] ELSE NoWidget

\* arrays.insert: s with x put at 0-based index j.
InsertAt(s, j, x) == SubSeq(s, 1, j) \o <<x>> \o SubSeq(s, j + 1, Len(s))

\* arrays.removeAt: s without its element at 0-based index j.
RemoveAt(s, j) == SubSeq(s, 1, j) \o SubSeq(s, j + 2, Len(s))

\* layout.insertChild(index, widget) for a widget that is not in the layout:
\* the index is clamped into 0..childCount.
insertChild(lay, index, w) ==
    InsertAt(lay, Max(0, Min(index, Len(lay))), w)

\* layout.insertChild(index, layout.childAt(from)): the child is already in
\* the layout and is moved so that it ends at the (clamped) index.
moveChild(lay, index, from) ==
    IF from \notin 0..(Len(lay) - 1) THEN lay
    ELSE LET n == Len(lay)
             j0 == Max(0, Min(index, n))
             j == IF j0 = n THEN j0 - 1 ELSE j0
         IN IF from = j THEN lay
            ELSE InsertAt(RemoveAt(lay, from), j, lay[from + 1])

\* layout.removeChild(layout.childAt(index))
removeChild(lay, index) ==
    IF index \in 0..(Len(lay) - 1) THEN RemoveAt(lay, index) ELSE lay

\* ------------------------------------------------------- NotebookRenderer

\* createCell without the default case of its switch: a cell whose type is
\* neither 'code' nor 'markdown' gets no widget.
createCell_NoDefault(cell) ==
    [model |-> cell,
     kind |-> CASE CellType(cell) = "code" -> "code"
                [] CellType(cell) = "markdown" -> "markdown"
                [] OTHER -> "none",
     selected |-> FALSE,
     picked |-> FALSE,
     rendered |-> (CellType(cell) = "markdown")]

\* NotebookRenderer.createCell: the widget built for a cell model.  A
\* markdown widget starts rendered; a new widget's selected property has its
\* default, false.
createCell(cell) ==
    [model |-> cell,
     kind |-> CASE CellType(cell) = "code" -> "code"
                [] CellType(cell) = "markdown" -> "markdown"
                [] OTHER -> "raw",
     selected |-> FALSE,
     picked |-> FALSE,
     rendered |-> (CellType(cell) = "markdown")]

\* The constructor's loop: one widget per cell, appended in order.
RECURSIVE BuildAll(_)
BuildAll(cs) ==
    IF cs = <<>> THEN <<>>
    ELSE insertChild(BuildAll(SubSeq(cs, 1, Len(cs) - 1)),
                     Len(cs) - 1, createCell(cs[Len(cs)]))

\* The first loop of the Replace case (lines 258-262): i runs from
\* args.oldIndex while i < oldValues.length, and each round removes and
\* disposes the child at args.oldIndex.  Answers the layout and the models of
\* the disposed widgets.  (The layout never holds fewer children than the
\* list has cells, so the child at oldIndex exists in every round.)
RECURSIVE removeOld(_, _, _, _, _)
removeOld(lay, disp, i, oldIndex, oldLen) ==
    IF i < oldLen
    THEN removeOld(removeChild(lay, oldIndex),
                   IF oldIndex \in 0..(Len(lay) - 1)
                   THEN Append(disp, childAt(lay, oldIndex).model) ELSE disp,
                   i + 1, oldIndex, oldLen)
    ELSE [layout |-> lay, disposed |-> disp]

\* The second loop of the Replace case (lines 264-268): i runs from
\* newValues.length down to 1, each round inserting the widget of
\* newValues[i - 1] at args.newIndex.
RECURSIVE insertNew(_, _, _, _)
insertNew(lay, i, newIndex, newValues) ==
    IF i > 0
    THEN insertNew(insertChild(lay, newIndex, createCell(newValues[i])),
                   i - 1, newIndex, newValues)
    ELSE lay

\* NotebookRenderer.onCellsChanged: the layout after the change `args` and the
\* models of the widgets it disposed.
onCellsChanged(lay, args) ==
    CASE args.type = "Add" ->
           [layout |-> insertChild(lay, args.newIndex, createCell(args.newValue)),
            disposed |-> <<>>]
      [] args.type = "Move" ->
           [layout |-> moveChild(lay, args.newIndex, args.oldIndex),
            disposed |-> <<>>]
      [] args.type = "Remove" ->
           [layout |-> removeChild(lay, args.oldIndex),
            disposed |-> IF args.oldIndex \in 0..(Len(lay) - 1)
                         THEN <<childAt(lay, args.oldIndex).model>> ELSE <<>>]
      [] args.type = "Replace" ->
           LET r == removeOld(lay, <<>>, args.oldIndex, args.oldIndex,
                              Len(args.oldValue))
           IN [layout |-> insertNew(r.layout, Len(args.newValue),
                                    args.newIndex, args.newValue),
               disposed |-> r.disposed]
      [] args.type = "Set" ->
           [layout |-> insertChild(removeChild(lay, args.newIndex),
                                   args.newIndex, createCell(args.newValue)),
            disposed |-> IF args.newIndex \in 0..(Len(lay) - 1)
                         THEN <<childAt(lay, args.newIndex).model>> ELSE <<>>]

\* A change of the cell list: the model's list becomes `newCells`, the list
\* notifies onCellsChanged with `args`, which ends in this.update().
CellsChanged(newCells, args, name, arg) ==
    LET r == onCellsChanged(layout, args)
    IN /\ Len(r.layout) <= MaxWidgets
       /\ cells' = newCells
       /\ layout' = r.layout
       /\ updatePending' = TRUE
       /\ emitted' = <<>>
       /\ op' = [name |-> name, arg |-> arg]
       /\ UNCHANGED <<mode, activeCellIndex, readOnly, focus>>

\* cells.insert(i, c): an Add change.
CellsAdd ==
    \E i \in 0..Len(cells), c \in CellIds \ Range(cells) :
        /\ Len(cells) < MaxCells
        /\ CellsChanged(InsertAt(cells, i, c),
                        [type |-> "Add", oldIndex |-> -1, newIndex |-> i,
                         oldValue |-> 0, newValue |-> c], "Add", i)

\* cells.move(from, to): a Move change.
CellsMove ==
    \E from \in 0..(Len(cells) - 1), to \in 0..(Len(cells) - 1) :
        /\ from # to
        /\ CellsChanged(InsertAt(RemoveAt(cells, from), to, cells[from + 1]),
                        [type |-> "Move", oldIndex |-> from, newIndex |-> to,
                         oldValue |-> cells[from + 1],
                         newValue |-> cells[from + 1]], "Move", to)

\* cells.removeAt(i): a Remove change.
CellsRemove ==
    \E i \in 0..(Len(cells) - 1) :
        CellsChanged(RemoveAt(cells, i),
                     [type |-> "Remove", oldIndex |-> i, newIndex |-> -1,
                      oldValue |-> cells[i + 1], newValue |-> 0], "Remove", i)

\* The arguments of the Replace change that cells.replace(i, count, items)
\* notifies: both indices are i, oldValue the cells replaced, newValue items.
ReplaceArgs(i, count, items) ==
    [type |-> "Replace", oldIndex |-> i, newIndex |-> i,
     oldValue |-> SubSeq(cells, i + 1, i + count),
     newValue |-> items]

\* cells.replace(i, count, items) and the onCellsChanged call it makes.
CellsReplaceAt(i, count, items) ==
    /\ count + Len(items) > 0
    /\ CellsChanged(SubSeq(cells, 1, i) \o items
                      \o SubSeq(cells, i + count + 1, Len(cells)),
                    ReplaceArgs(i, count, items), "Replace", i)

\* cells.replace(i, count, items) (also assign and clear, with i = 0): a
\* Replace change, whose oldValue and newValue are arrays.
CellsReplace ==
    \E i \in 0..Len(cells) :
      \E count \in 0..(Len(cells) - i) :
        LET kept == SubSeq(cells, 1, i) \o SubSeq(cells, i + count + 1, Len(cells))
        IN \E items \in DistinctSeqs(CellIds \ Range(kept), MaxCells - Len(kept)) :
             CellsReplaceAt(i, count, items)

\* cells.set(i, c): a Set change.
CellsSet ==
    \E i \in 0..(Len(cells) - 1), c \in CellIds \ Range(cells) :
        CellsChanged([cells EXCEPT ![i + 1] = c],
                     [type |-> "Set", oldIndex |-> i, newIndex |-> i,
                      oldValue |-> cells[i + 1], newValue |-> c], "Set", i)

\* --------------------------------------------------------- ActiveNotebook

NotebookModes == {"command", "edit"}

\* The fields of the notebook a handler reads and writes, as it starts: no
\* signal emitted yet.
This ==
    [layout |-> layout, mode |-> mode, active |-> activeCellIndex,
     pending |-> updatePending, emitted |-> <<>>]

\* ActiveNotebook.select(widget), widget the child at index i.
select(s, i) ==
    [s EXCEPT !.layout[i + 1].selected = TRUE,
              !.layout[i + 1].picked = TRUE,
              !.pending = TRUE]

\* deselect that also gives up the active cell when it is the one deselected.
deselect_DropsActive(s, i) ==
    [s EXCEPT !.layout[i + 1].selected = FALSE,
              !.layout[i + 1].picked = FALSE,
              !.active = IF @ = i THEN -1 ELSE @,
              !.pending = TRUE]

\* ActiveNotebook.deselect(widget), widget the child at index i.
deselect(s, i) ==
    [s EXCEPT !.layout[i + 1].selected = FALSE,
              !.layout[i + 1].picked = FALSE,
              !.pending = TRUE]

\* isSelected without the test for the active cell.
isSelected_FlagOnly(lay, active, i) == lay[i + 1].selected

\* ActiveNotebook.isSelected(widget), widget the child at index i of lay.
isSelected(lay, active, i) ==
    IF active = i THEN TRUE ELSE lay[i + 1].selected

\* The loop of the mode setter (lines 352-355): deselect every child from
\* index i on.
RECURSIVE deselectFrom(_, _)
deselectFrom(s, i) ==
    IF i < Len(s.layout) THEN deselectFrom(deselect(s, i), i + 1) ELSE s

\* The mode setter without the loop that deselects the cells.
setMode_NoDeselect(s, value) ==
    IF value = s.mode THEN s
    ELSE [s EXCEPT !.mode = value, !.pending = TRUE]

\* The setter of ActiveNotebook.mode.
setMode(s, value) ==
    IF value = s.mode THEN s
    ELSE LET s1 == [s EXCEPT !.mode = value]
             s2 == IF value = "edit" THEN deselectFrom(s1, 0) ELSE s1
         IN [s2 EXCEPT !.pending = TRUE]

\* The activeCellIndex setter without Math.max(value, 0).
setActiveCellIndex_NoLowerClamp(s, value) ==
    LET v2 == Min(value, Len(cells) - 1)
        widget == childAt(s.layout, v2)
    IN IF v2 = s.active THEN s
       ELSE [s EXCEPT !.active = v2,
                      !.layout = IF widget.kind = "markdown" /\ s.mode = "edit"
                                 THEN [@ EXCEPT ![v2 + 1].rendered = FALSE]
                                 ELSE @,
                      !.emitted = Append(@, v2),
                      !.pending = TRUE]

\* The activeCellIndex setter without the early return on an unchanged value.
setActiveCellIndex_NoGuard(s, value) ==
    LET v1 == Max(value, 0)
        v2 == Min(v1, Len(cells) - 1)
        widget == childAt(s.layout, v2)
    IN [s EXCEPT !.active = v2,
                 !.layout = IF widget.kind = "markdown" /\ s.mode = "edit"
                            THEN [@ EXCEPT ![v2 + 1].rendered = FALSE]
                            ELSE @,
                 !.emitted = Append(@, v2),
                 !.pending = TRUE]

\* The setter of ActiveNotebook.activeCellIndex.
setActiveCellIndex(s, value) ==
    LET v1 == Max(value, 0)
        v2 == Min(v1, Len(cells) - 1)
        widget == childAt(s.layout, v2)
    IN IF v2 = s.active THEN s
       ELSE [s EXCEPT !.active = v2,
                      !.layout = IF widget.kind = "markdown" /\ s.mode = "edit"
                                 THEN [@ EXCEPT ![v2 + 1].rendered = FALSE]
                                 ELSE @,
                      !.emitted = Append(@, v2),
                      !.pending = TRUE]

\* ActiveNotebook.onEdgeRequest.
onEdgeRequest(s, location) ==
    IF location = "top" THEN setActiveCellIndex(s, s.active - 1)
    ELSE setActiveCellIndex(s, s.active + 1)

\* The event targets: an element inside the child at index i of the layout
\* ("cell"), an element of the notebook outside every cell ("notebook"), or
\* an element under a jp-Notebook-cell node that is no child of the layout
\* ("stray").
Targets ==
    {[in |-> "cell", idx |-> i] : i \in 0..(MaxWidgets - 1)}
        \cup {[in |-> "notebook", idx |-> -1], [in |-> "stray", idx |-> -1]}

\* The search of findCell's inner loop (lines 207-211): the first index from
\* i on whose child's node is the cell node above the target, or -1.
RECURSIVE searchChild(_, _, _)
searchChild(lay, target, i) ==
    IF i < Len(lay)
    THEN IF target.in = "cell" /\ target.idx = i THEN i
         ELSE searchChild(lay, target, i + 1)
    ELSE -1

\* NotebookRenderer.findCell.
findCell(lay, target) ==
    IF target.in = "notebook" THEN -1 ELSE searchChild(lay, target, 0)

\* _evtClick without the test of model.readOnly.
evtClick_NoReadOnly(s, target, isReadOnly, nodeFocused) ==
    LET i == findCell(s.layout, target)
    IN IF i = -1 THEN s
       ELSE setMode(setActiveCellIndex(s, i),
                    IF nodeFocused THEN "command" ELSE "edit")

\* ActiveNotebook._evtClick; nodeFocused is document.activeElement === this.node.
evtClick(s, target, isReadOnly, nodeFocused) ==
    IF isReadOnly THEN s
    ELSE LET i == findCell(s.layout, target)
         IN IF i = -1 THEN s
            ELSE setMode(setActiveCellIndex(s, i),
                         IF nodeFocused THEN "command" ELSE "edit")

\* _evtDblClick without the test of widget.rendered.
evtDblClick_NoRenderedCheck(s, target, isReadOnly) ==
    IF isReadOnly THEN s
    ELSE LET i == findCell(s.layout, target)
         IN IF i = -1 THEN s
            ELSE IF i >= Len(cells) THEN s
            ELSE IF CellType(cells[i + 1]) # "markdown" THEN s
            ELSE setMode(s, "edit")

\* ActiveNotebook._evtDblClick.  model.cells.get(i) is undefined for an index
\* past the list, and reading its type throws: the handler ends there.  A
\* widget that is no markdown widget has no rendered property, which reads
\* as false.  findCell found the target under the widget's node, so
\* widget.node.contains(event.target) holds.
evtDblClick(s, target, isReadOnly) ==
    IF isReadOnly THEN s
    ELSE LET i == findCell(s.layout, target)
         IN IF i = -1 THEN s
            ELSE IF i >= Len(cells) THEN s
            ELSE IF CellType(cells[i + 1]) # "markdown"
                    \/ ~childAt(s.layout, i).rendered THEN s
            ELSE setMode(s, "edit")

\* onUpdateRequest without the assignment rendered = false of its edit branch.
onUpdateRequest_KeepsRendered(s, f) ==
    LET widget == childAt(s.layout, s.active)
    IN IF s.mode = "edit"
       THEN [layout |-> s.layout,
             focus |-> IF widget.kind # "none" THEN "other" ELSE f]
       ELSE [layout |-> s.layout, focus |-> "node"]

\* ActiveNotebook.onUpdateRequest: the rendered flags and the focus after it.
onUpdateRequest(s, f) ==
    LET widget == childAt(s.layout, s.active)
    IN IF s.mode = "edit"
       THEN [layout |-> IF widget.kind = "markdown"
                        THEN [s.layout EXCEPT ![s.active + 1].rendered = FALSE]
                        ELSE s.layout,
             focus |-> IF widget.kind # "none" THEN "other" ELSE f]
       ELSE [layout |-> s.layout, focus |-> "node"]

\* ---------------------------------------------------------------- actions

\* The state after a handler of ActiveNotebook that ended in state s.
Commit(s, name, arg) ==
    /\ layout' = s.layout
    /\ mode' = s.mode
    /\ activeCellIndex' = s.active
    /\ updatePending' = s.pending
    /\ emitted' = s.emitted
    /\ op' = [name |-> name, arg |-> arg]
    /\ UNCHANGED <<cells, readOnly, focus>>

\* The values assigned to activeCellIndex from outside.
IndexValues == (-1)..MaxCells

\* notebook.mode = value
SetMode == \E value \in NotebookModes :
    Commit(setMode(This, value), "mode", IF value = "edit" THEN 1 ELSE 0)

\* notebook.activeCellIndex = value
SetActiveCellIndex == \E value \in IndexValues :
    Commit(setActiveCellIndex(This, value), "activeCellIndex", value)

\* notebook.select(notebook.childAt(i))
Select == \E i \in 0..(Len(layout) - 1) :
    Commit(select(This, i), "select", i)

\* notebook.deselect(notebook.childAt(i))
Deselect == \E i \in 0..(Len(layout) - 1) :
    Commit(deselect(This, i), "deselect", i)

\* A cell editor's edgeRequested signal reaches onEdgeRequest.
EdgeRequest == \E location \in {"top", "bottom"} :
    /\ Len(layout) > 0
    /\ Commit(onEdgeRequest(This, location), "edge",
              IF location = "top" THEN -1 ELSE 1)

\* The targets that exist in the document.
LiveTargets == {t \in Targets : t.in = "cell" => t.idx < Len(layout)}

\* A click event reaches handleEvent.
EvtClick == \E target \in LiveTargets :
    Commit(evtClick(This, target, readOnly, focus = "node"), "click", target.idx)

\* A dblclick event reaches handleEvent.
EvtDblClick == \E target \in LiveTargets :
    Commit(evtDblClick(This, target, readOnly), "dblclick", target.idx)

\* The posted update-request message is processed.
UpdateRequest ==
    /\ updatePending
    /\ LET r == onUpdateRequest(This, focus)
       IN /\ layout' = r.layout
          /\ focus' = r.focus
    /\ updatePending' = FALSE
    /\ emitted' = <<>>
    /\ op' = [name |-> "update", arg |-> 0]
    /\ UNCHANGED <<cells, mode, activeCellIndex, readOnly>>

\* The environment: the model's readOnly flag is set.
SetReadOnly == \E b \in BOOLEAN :
    /\ b # readOnly
    /\ readOnly' = b
    /\ emitted' = <<>>
    /\ op' = [name |-> "readOnly", arg |-> 0]
    /\ UNCHANGED <<cells, layout, mode, activeCellIndex, focus, updatePending>>

\* The environment: the user or the browser moves the focus.
FocusMoved == \E f \in {"node", "other"} :
    /\ f # focus
    /\ focus' = f
    /\ emitted' = <<>>
    /\ op' = [name |-> "focus", arg |-> 0]
    /\ UNCHANGED <<cells, layout, mode, activeCellIndex, readOnly, updatePending>>

\* The environment: a markdown widget is rendered again (its rendered
\* property is set to true from outside the notebook widget).
Render == \E i \in 0..(Len(layout) - 1) :
    /\ layout[i + 1].kind = "markdown"
    /\ ~layout[i + 1].rendered
    /\ layout' = [layout EXCEPT ![i + 1].rendered = TRUE]
    /\ emitted' = <<>>
    /\ op' = [name |-> "render", arg |-> i]
    /\ UNCHANGED <<cells, mode, activeCellIndex, readOnly, focus, updatePending>>

\* The state after the constructor, for any cell list the model holds.
Init ==
    /\ cells \in DistinctSeqs(CellIds, MaxCells)
    /\ layout = BuildAll(cells)
    /\ mode = "command"
    /\ activeCellIndex = 0
    /\ readOnly \in BOOLEAN
    /\ focus = "other"
    /\ updatePending = FALSE
    /\ emitted = <<>>
    /\ op = [name |-> "constructor", arg |-> 0]

Next ==
    \/ CellsAdd
    \/ CellsMove
    \/ CellsRemove
    \/ CellsReplace
    \/ CellsSet
    \/ SetMode
    \/ SetActiveCellIndex
    \/ Select
    \/ Deselect
    \/ EdgeRequest
    \/ EvtClick
    \/ EvtDblClick
    \/ UpdateRequest
    \/ SetReadOnly
    \/ FocusMoved
    \/ Render

Spec == Init /\ [][Next]_vars

\* ----------------------------------------------------------------- claims

\* The index a value assigned to activeCellIndex is clamped to when the list
\* holds n cells.
Clamped(v, n) == Min(Max(v, 0), n - 1)

LayoutIndices == 0..(Len(layout) - 1)

\* C1: in every reachable state the layout has exactly model.cells.length
\* children and the child at each index i is the widget built for the cell at
\* index i.
C1_WidgetsMirrorCells ==
    /\ Len(layout) = Len(cells)
    /\ \A i \in 1..Len(layout) : layout[i].model = cells[i]

\* C2: every widget of the layout was produced by createCell with the kind
\* its cell's type asks for: a code widget for 'code', a markdown widget for
\* 'markdown' and a raw widget for every other type; no cell is left without
\* a widget.
C2_CreateCellTotal ==
    \A i \in 1..Len(layout) :
        LET type == CellType(layout[i].model)
        IN /\ layout[i].kind \in {"code", "markdown", "raw"}
           /\ (type = "code") = (layout[i].kind = "code")
           /\ (type = "markdown") = (layout[i].kind = "markdown")
           /\ (type \notin {"code", "markdown"}) = (layout[i].kind = "raw")

\* A change has just put the widgets of a 'raw' cell and of a cell of an
\* unknown type into the layout, both raw widgets.
C2_Witness ==
    /\ op.name \in {"Add", "Set", "Replace"}
    /\ \E i, j \in 1..Len(layout) :
        /\ CellType(layout[i].model) = "raw" /\ layout[i].kind = "raw"
        /\ CellType(layout[j].model) = "heading" /\ layout[j].kind = "raw"

\* C3: after the assignment of any integer v to activeCellIndex on a notebook
\* with n >= 1 cells, activeCellIndex is min(max(v, 0), n - 1).
C3_AssignmentClamps ==
    (op.name = "activeCellIndex" /\ Len(cells) >= 1)
        => /\ activeCellIndex = Clamped(op.arg, Len(cells))
           /\ activeCellIndex \in 0..(Len(cells) - 1)

\* A value past the last cell was assigned and the index is the last cell's.
C3_Witness ==
    /\ op.name = "activeCellIndex"
    /\ Len(cells) >= 1
    /\ op.arg > Len(cells) - 1
    /\ activeCellIndex = Len(cells) - 1
    /\ emitted = <<Len(cells) - 1>>

\* C4: activeIndexChanged is emitted exactly when the stored index changes: a
\* step that changes activeCellIndex emits the signal once, with the new
\* index; a step that leaves it alone emits nothing; and an assignment whose
\* clamped value is the current index changes no state at all.
C4_EmittedIffChanged ==
    [][/\ (activeCellIndex' # activeCellIndex
              => emitted' = <<activeCellIndex'>>)
       /\ (activeCellIndex' = activeCellIndex => emitted' = <<>>)
       /\ (op'.name = "activeCellIndex"
              => IF Clamped(op'.arg, Len(cells)) # activeCellIndex
                 THEN /\ activeCellIndex' = Clamped(op'.arg, Len(cells))
                      /\ emitted' = <<Clamped(op'.arg, Len(cells))>>
                 ELSE UNCHANGED <<cells, layout, mode, activeCellIndex,
                                  readOnly, focus, updatePending>>)]_vars

\* An assignment of a value outside the list changed the index and emitted
\* the clamped index, not the value assigned.
C4_Witness ==
    /\ op.name = "activeCellIndex"
    /\ emitted = <<activeCellIndex>>
    /\ op.arg # activeCellIndex
    /\ updatePending

\* C5: isSelected(w) is true if and only if w is the widget at
\* activeCellIndex or select was called on w with no deselect of w since.
C5_IsSelectedIff ==
    \A i \in LayoutIndices :
        isSelected(layout, activeCellIndex, i)
            <=> (i = activeCellIndex \/ layout[i + 1].picked)

\* select has just been called on a widget that is not the active one, in a
\* layout that holds the active cell's widget too: both are reported selected.
C5_Witness ==
    /\ op.name = "select"
    /\ op.arg # activeCellIndex
    /\ activeCellIndex \in LayoutIndices
    /\ Len(layout) = Len(cells)
    /\ ~layout[activeCellIndex + 1].selected
    /\ isSelected(layout, activeCellIndex, op.arg)
    /\ isSelected(layout, activeCellIndex, activeCellIndex)

\* C6: deselect leaves activeCellIndex and mode unchanged, and the active
\* cell's widget is still reported selected afterwards, also when it is the
\* widget that was deselected.
C6_DeselectKeepsActive ==
    [][op'.name = "deselect"
          => /\ UNCHANGED <<activeCellIndex, mode>>
             /\ (activeCellIndex' \in 0..(Len(layout') - 1)
                    => isSelected(layout', activeCellIndex', activeCellIndex'))]_vars

\* deselect has just been called on the active cell's widget, whose selected
\* flag is now false while isSelected still answers true.
C6_Witness ==
    /\ op.name = "deselect"
    /\ op.arg = activeCellIndex
    /\ ~layout[op.arg + 1].selected
    /\ isSelected(layout, activeCellIndex, activeCellIndex)
    /\ \E j \in LayoutIndices : j # activeCellIndex /\ layout[j + 1].selected

\* C7: immediately after mode changes from 'command' to 'edit' the selected
\* flag of every widget of the layout is false, so isSelected is true of the
\* active cell only.
C7_EditDeselectsAll ==
    [][(mode = "command" /\ mode' = "edit")
          => \A i \in 0..(Len(layout') - 1) :
                /\ ~layout'[i + 1].selected
                /\ (isSelected(layout', activeCellIndex', i)
                       => i = activeCellIndex')]_vars

\* The mode was just set to 'edit' on a layout of two widgets, none selected.
C7_Witness ==
    /\ op.name = "mode"
    /\ op.arg = 1
    /\ mode = "edit"
    /\ updatePending
    /\ Len(layout) = 2
    /\ \A i \in LayoutIndices : ~layout[i + 1].selected

\* C8: while the model is read-only a click or a double-click changes
\* nothing: mode, activeCellIndex, the selected and rendered flags of every
\* widget are as before, and activeIndexChanged is not emitted.
C8_ReadOnlyIgnoresMouse ==
    [][(readOnly /\ op'.name \in {"click", "dblclick"})
          => /\ UNCHANGED <<mode, activeCellIndex, layout, cells, updatePending>>
             /\ emitted' = <<>>]_vars

\* A read-only notebook in command mode was just clicked in a cell that is
\* not the active one, and a rendered markdown cell was there to double-click.
C8_Witness ==
    /\ readOnly
    /\ op.name = "click"
    /\ op.arg >= 0
    /\ op.arg # activeCellIndex
    /\ op.arg < Len(cells)
    /\ mode = "command"
    /\ \E i \in LayoutIndices : layout[i + 1].rendered

\* C9: a click on a writable notebook whose target lies inside cell i makes
\* i the active index and sets mode to 'command' if the notebook's node holds
\* the focus and to 'edit' otherwise; a click in no cell changes neither.
C9_ClickActivates ==
    [][(~readOnly /\ op'.name = "click")
          => IF op'.arg >= 0
             THEN /\ activeCellIndex' = op'.arg
                  /\ mode' = (IF focus = "node" THEN "command" ELSE "edit")
             ELSE UNCHANGED <<activeCellIndex, mode>>]_vars

\* C10: a double-click changes the mode only to 'edit' and only when its
\* target lies in a markdown cell that is rendered; on a code cell, a raw
\* cell, an unrendered markdown cell or outside every cell it leaves the mode
\* unchanged; and no double-click changes activeCellIndex.
C10_DblClickEdits ==
    [][op'.name = "dblclick"
          => /\ activeCellIndex' = activeCellIndex
             /\ (mode' # mode
                    => /\ mode' = "edit"
                       /\ op'.arg >= 0
                       /\ op'.arg < Len(cells)
                       /\ CellType(cells[op'.arg + 1]) = "markdown"
                       /\ childAt(layout, op'.arg).kind = "markdown"
                       /\ childAt(layout, op'.arg).rendered)]_vars

\* A double-click on a rendered markdown cell that is not the active one has
\* just put the notebook into edit mode.
C10_Witness ==
    /\ op.name = "dblclick"
    /\ op.arg >= 0
    /\ op.arg # activeCellIndex
    /\ mode = "edit"
    /\ updatePending
    /\ childAt(layout, op.arg).kind = "markdown"
    /\ childAt(layout, op.arg).rendered
    /\ focus = "node"

\* C11: a Replace change that replaces the old cells oldValue, starting at
\* index oldIndex, with the cells newValue at index newIndex, for any
\* oldIndex >= 0, removes and disposes the widgets of all the old cells and
\* of no other cell, and leaves the widgets of newValue at positions
\* newIndex .. newIndex + len(newValue) - 1, in the order of newValue.
C11_ReplaceSwapsWidgets ==
    [][\A i \in 0..MaxCells, count \in 0..MaxCells :
         \A items \in DistinctSeqs(CellIds, MaxCells) :
           (/\ op'.name = "Replace" /\ op'.arg = i
            /\ i + count <= Len(cells)
            /\ Len(cells') = Len(cells) - count + Len(items)
            /\ CellsReplaceAt(i, count, items))
              => LET args == ReplaceArgs(i, count, items)
                     r == onCellsChanged(layout, args)
                 IN /\ r.disposed = args.oldValue
                    /\ Len(layout') = Len(layout) - count + Len(items)
                    /\ \A k \in 1..Len(items) :
                          /\ args.newIndex + k <= Len(layout')
                          /\ layout'[args.newIndex + k].model = items[k]]_vars

\* The widget at activeCellIndex is a markdown widget.
ActiveIsMarkdown(lay, active) == childAt(lay, active).kind = "markdown"

====
